---- MODULE Spec2Model ----
(***************************************************************************)
(* A model of the CCTNS Copilot query pipeline.                            *)
(*                                                                         *)
(* Spec           the client-side services: the generation service         *)
(*                (generateSqlAndSummary) followed by the mock executor    *)
(*                (executeQuery).                                          *)
(* SpecApp        the App: handleQuerySubmit against the backend.          *)
(* SpecDisplay    the two sources of a QueryResult for the display.        *)
(* SpecBackend    one request through the backend pipeline.                *)
(* SpecValidator  the safety validator on every candidate text.            *)
(* SpecVoice      the voice input: useVoiceRecording and VoiceInput.       *)
(* SpecTable      DataTable: the chart derivation and the pagination.       *)
(* SpecChat       the generation chat and the requests sent on it.          *)
(* SpecAppLive    the App against a backend that may never answer.          *)
(* SpecInput      blank input: at the App and at the backend intake.       *)
(*                                                                         *)
(* Texts are sequences of tokens.  A model response is a token sequence    *)
(* over fence / lang / nl / json / junk, where "json" stands for the       *)
(* serialised payload carried beside it; an SQL text is a sequence of SQL  *)
(* words.  JSON values are records [t, v] with t the JSON type.            *)
(***************************************************************************)
EXTENDS Integers, Sequences, FiniteSets, TLC

VARIABLES
    pc,            \* position of the client request: idle, start, generated, executed, failed
    response,      \* what chat.sendMessage yields for the request
    fallbackLacksSql, \* whether a second (fallback) model would also omit sql
    genCalls,      \* generation calls made, per model
    generated,     \* <<>> or <<[sql, summary]>>: the GeneratedSql
    verdicts,      \* SQL texts for which a safety verdict allowed=true was computed
    execResult,    \* <<>> or <<QueryResult>>: the ExecutionResult
    outcome        \* none, ok, GenerationError

clientVars == <<pc, response, fallbackLacksSql, genCalls, generated, verdicts,
                execResult, outcome>>

VARIABLES
    status,        \* App: idle or loading
    error,         \* App: <<>> (null) or the error text shown above the input
    queryResult,   \* App: <<>> (null) or <<QueryResult>> handed to ResultsDisplay
    messages,      \* App: the chat messages
    inflight,      \* App: the handleQuerySubmit calls waiting on the backend
    submits,       \* App: number of non-blank queries submitted so far
    hung           \* the calls in flight whose fetch will never settle

appVars == <<status, error, queryResult, messages, inflight, submits, hung>>

VARIABLES
    bpc,           \* backend request: the step the pipeline is at
    input,         \* backend request: [kind, language, secondary]
    entered,       \* backend request: the stages entered so far, in order
    produced,      \* backend request: the stages that have produced their output
    calls,         \* backend request: provider invocations and their outcomes, in order
    candidate,     \* backend request: <<>> or <<sql>>, the GeneratedSql text
    verdict,       \* backend request: <<>> or <<SafetyVerdict>>
    failure        \* backend request: <<>> or <<[stage, kind]>>

backendVars == <<bpc, input, entered, produced, calls, candidate, verdict, failure>>

VARIABLES
    voice,         \* useVoiceRecording state: [isRecording, isProcessing, error]
    langFetched,   \* VoiceInput: initialLanguageFetched
    recorders,     \* every MediaRecorder created: [state, onstop, stopQueued, audio, live]
    recorder,      \* mediaRecorderRef.current: an index into recorders, 0 for null
    chunks,        \* audioChunksRef.current.length
    gumPending,    \* startRecording calls waiting on getUserMedia
    promises,      \* the promises stopRecording returned, in call order
    transcribing,  \* transcribeAudio calls in flight
    submitted,     \* audio kinds whose text was handed to onTranscription, in order
    clicks         \* toggle clicks so far

voiceVars == <<voice, langFetched, recorders, recorder, chunks, gumPending, promises,
               transcribing, submitted, clicks>>

VARIABLES
    tableData,     \* DataTable: the data prop, a QueryResult
    chartMemo,     \* DataTable: <<>> before the chartData memo ran, else <<its outcome>>
    currentPage    \* DataTable: the page shown

tableVars == <<tableData, chartMemo, currentPage>>

VARIABLES
    sdkMerges,     \* whether the SDK merges a request config into the chat config
    chat,          \* <<>> or <<Chat>>: what initChat returned
    sent           \* the generation requests sent so far: [context, query]

chatVars == <<sdkMerges, chat, sent>>

vars == <<clientVars, appVars, backendVars, voiceVars, tableVars, chatVars>>

----------------------------------------------------------------------------
(* Bounds *)

MaxTextLen == 4
MaxSubmits == 2
MaxRows == 2
MaxCols == 2
MaxSqlLen == 3
MaxClicks == 3
MaxCells == 4
MaxCalls == 3

----------------------------------------------------------------------------
(* Generic helpers *)

RECURSIVE TrimLeft(_)
TrimLeft(s) ==
    IF s # <<>> /\ Head(s) = "nl" THEN TrimLeft(Tail(s)) ELSE s

RECURSIVE TrimRight(_)
TrimRight(s) ==
    IF s # <<>> /\ s[Len(s)] = "nl" THEN TrimRight(SubSeq(s, 1, Len(s) - 1)) ELSE s

\* String.prototype.trim on a token text: whitespace is the nl token
Trim(s) == TrimRight(TrimLeft(s))

SeqsUpTo(S, n) == UNION {[1..k -> S] : k \in 0..n}

----------------------------------------------------------------------------
(* JSON values and model responses *)

JAbsent == [t |-> "absent", v |-> <<>>]
JNull == [t |-> "null", v |-> <<>>]
JStr(s) == [t |-> "string", v |-> s]
JNum(d) == [t |-> "number", v |-> <<d>>]
JObj == [t |-> "object", v |-> <<>>]

\* JavaScript truthiness of a property read: undefined, null, "", 0 are falsy
Truthy(j) ==
    CASE j.t = "absent" -> FALSE
      [] j.t = "null" -> FALSE
      [] j.t = "string" -> j.v # <<>>
      [] j.t = "number" -> j.v # <<"0">>
      [] OTHER -> TRUE

SqlGuntur == <<"SELECT", "FIR", "GROUP BY", "Guntur">>
SqlOfficer == <<"SELECT", "OFFICER_MASTER", "Kumar">>
SqlTrend == <<"SELECT", "FIR", "ESC_NL", "GROUP BY", "month">>
SqlAll == <<"SELECT", "FIR">>
SqlDrop == <<"DROP", "TABLE", "FIR">>

SqlFieldValues ==
    {JAbsent, JStr(<<>>), JNum("7"), JStr(SqlGuntur), JStr(SqlOfficer),
     JStr(SqlTrend), JStr(SqlAll), JStr(SqlDrop)}

SummaryFieldValues ==
    {JAbsent, JStr(<<>>), JStr(<<"text">>), JNum("0"), JNum("7"), JObj}

Payloads ==
    [kind : {"object"}, sql : SqlFieldValues, summary : SummaryFieldValues]
    \cup {[kind |-> k, sql |-> JAbsent, summary |-> JAbsent] : k \in {"null", "scalar"}}

NoPayload == [kind |-> "null", sql |-> JAbsent, summary |-> JAbsent]

TextTokens == {"fence", "lang", "nl", "json", "junk"}

HasJson(toks) == \E i \in 1..Len(toks) : toks[i] = "json"

\* response.text of a resolved sendMessage, or a rejected call (ok = FALSE)
Responses ==
    {[ok |-> TRUE, toks |-> t, payload |-> p] :
        t \in {x \in SeqsUpTo(TextTokens, MaxTextLen) : HasJson(x)}, p \in Payloads}
    \cup {[ok |-> TRUE, toks |-> t, payload |-> NoPayload] :
        t \in {x \in SeqsUpTo(TextTokens, MaxTextLen) : ~HasJson(x)}}
    \cup {[ok |-> FALSE, toks |-> <<>>, payload |-> NoPayload]}

----------------------------------------------------------------------------
(* generateSqlAndSummary: fence stripping and parsing *)

\* fenceRegex /^```(\w*)?\s*\n?(.*?)\n?\s*```$/s matches
FenceMatch(s) == Len(s) >= 2 /\ s[1] = "fence" /\ s[Len(s)] = "fence"

\* match[2]: what lies between the opening fence (with its language word and
\* the whitespace after it) and the whitespace before the closing fence
FenceGroup2(s) ==
    LET inner == SubSeq(s, 2, Len(s) - 1)
        afterLang == IF inner # <<>> /\ inner[1] = "lang" THEN Tail(inner) ELSE inner
    IN  Trim(afterLang)

JsonStr(toks) ==
    LET s == Trim(toks)
    IN  IF FenceMatch(s) /\ FenceGroup2(s) # <<>> THEN Trim(FenceGroup2(s)) ELSE s

\* JSON.parse succeeds exactly on one serialised payload
JsonParses(j) == j = <<"json">>

\* sql.replace(/\\n/g, '\n'): every escaped newline becomes a newline
ReplaceEscapedNewlines(sql) ==
    [i \in 1..Len(sql) |-> IF sql[i] = "ESC_NL" THEN "NL" ELSE sql[i]]

GenFailure == [ok |-> FALSE, sql |-> <<>>, summary |-> JAbsent]

\* a parse that tests the summary alone and hands on whatever sql it finds
ParsedResultSummaryOnly(p) ==
    IF p.kind # "object" THEN GenFailure
    ELSE IF Truthy(p.summary)
         THEN [ok |-> TRUE,
               sql |-> IF p.sql.t = "string" THEN ReplaceEscapedNewlines(p.sql.v)
                       ELSE <<>>,
               summary |-> p.summary]
         ELSE GenFailure

\* the try block: the truthiness test on both fields, then the return value;
\* a TypeError (property of null, replace of a non-string) lands in the catch
ParsedResult(p) ==
    IF p.kind # "object" THEN GenFailure
    ELSE IF Truthy(p.sql) /\ Truthy(p.summary)
         THEN IF p.sql.t = "string"
              THEN [ok |-> TRUE, sql |-> ReplaceEscapedNewlines(p.sql.v),
                    summary |-> p.summary]
              ELSE GenFailure
         ELSE GenFailure

\* the value generateSqlAndSummary resolves with, or its failure
GenerateResult(r) ==
    IF ~r.ok THEN GenFailure
    ELSE IF JsonParses(JsonStr(r.toks)) THEN ParsedResult(r.payload)
    ELSE GenFailure

----------------------------------------------------------------------------
(* executeQuery: the mock executor *)

Str(s) == [isNum |-> FALSE, s |-> s, n |-> 0]
Num(n) == [isNum |-> TRUE, s |-> "", n |-> n]

MOCK_CRIME_DATA ==
    << [crime_type |-> "Theft", district |-> "Guntur", count |-> 120],
       [crime_type |-> "Assault", district |-> "Guntur", count |-> 45],
       [crime_type |-> "Burglary", district |-> "Guntur", count |-> 78],
       [crime_type |-> "Robbery", district |-> "Guntur", count |-> 30],
       [crime_type |-> "Theft", district |-> "Visakhapatnam", count |-> 150],
       [crime_type |-> "Assault", district |-> "Visakhapatnam", count |-> 60] >>

MOCK_ARREST_DATA ==
    << [officer_name |-> "S. Kumar", arrest_date |-> "2025-05-15",
        fir_description |-> "Theft of motorcycle"],
       [officer_name |-> "S. Kumar", arrest_date |-> "2025-05-22",
        fir_description |-> "Shop burglary on Main St."],
       [officer_name |-> "A. Reddy", arrest_date |-> "2025-06-01",
        fir_description |-> "Assault case at market"],
       [officer_name |-> "S. Kumar", arrest_date |-> "2025-06-10",
        fir_description |-> "Chain snatching incident"] >>

MOCK_FIR_TREND ==
    << [month |-> "2024-07", count |-> 55], [month |-> "2024-08", count |-> 62],
       [month |-> "2024-09", count |-> 48], [month |-> "2024-10", count |-> 70],
       [month |-> "2024-11", count |-> 65], [month |-> "2024-12", count |-> 75],
       [month |-> "2025-01", count |-> 80], [month |-> "2025-02", count |-> 72],
       [month |-> "2025-03", count |-> 85], [month |-> "2025-04", count |-> 90],
       [month |-> "2025-05", count |-> 88], [month |-> "2025-06", count |-> 95] >>

ToLowerWord(w) ==
    CASE w = "SELECT" -> "select"
      [] w = "DROP" -> "drop"
      [] w = "TABLE" -> "table"
      [] w = "FIR" -> "fir"
      [] w = "GROUP BY" -> "group by"
      [] w = "Guntur" -> "guntur"
      [] w = "OFFICER_MASTER" -> "officer_master"
      [] w = "Kumar" -> "kumar"
      [] OTHER -> w

ToLowerCase(sql) == [i \in 1..Len(sql) |-> ToLowerWord(sql[i])]

Includes(text, w) == \E i \in 1..Len(text) : text[i] = w

IsGuntur(d) == d.district = "Guntur"
IsKumar(d) == d.officer_name \in {"S. Kumar"}
CrimeRow2(d) == <<Str(d.crime_type), Num(d.count)>>
CrimeRow3(d) == <<Str(d.crime_type), Str(d.district), Num(d.count)>>
ArrestRow(d) == <<Str(d.officer_name), Str(d.arrest_date), Str(d.fir_description)>>
TrendRow(d) == <<Str(d.month), Num(d.count)>>

\* a mock executor whose default branch drops the district cell of each row
executeQueryNarrowRows(sql) ==
    [columns |-> <<"Crime Type", "District", "Total Count">>,
     rows |-> [i \in 1..Len(MOCK_CRIME_DATA) |-> CrimeRow2(MOCK_CRIME_DATA[i])],
     query |-> sql]

executeQuery(sql) ==
    LET lowerSql == ToLowerCase(sql)
    IN  IF Includes(lowerSql, "group by") /\ Includes(lowerSql, "guntur")
        THEN [columns |-> <<"Crime Type", "Total FIRs">>,
              rows |-> LET kept == SelectSeq(MOCK_CRIME_DATA, IsGuntur)
                       IN  [i \in 1..Len(kept) |-> CrimeRow2(kept[i])],
              query |-> sql]
        ELSE IF Includes(lowerSql, "officer_master") /\ Includes(lowerSql, "kumar")
        THEN [columns |-> <<"Arresting Officer", "Arrest Date", "FIR Details">>,
              rows |-> LET kept == SelectSeq(MOCK_ARREST_DATA, IsKumar)
                       IN  [i \in 1..Len(kept) |-> ArrestRow(kept[i])],
              query |-> sql]
        ELSE IF Includes(lowerSql, "fir") /\ Includes(lowerSql, "group by")
                /\ Includes(lowerSql, "month")
        THEN [columns |-> <<"Month", "FIR Count">>,
              rows |-> [i \in 1..Len(MOCK_FIR_TREND) |-> TrendRow(MOCK_FIR_TREND[i])],
              query |-> sql]
        ELSE [columns |-> <<"Crime Type", "District", "Total Count">>,
              rows |-> [i \in 1..Len(MOCK_CRIME_DATA) |-> CrimeRow3(MOCK_CRIME_DATA[i])],
              query |-> sql]

----------------------------------------------------------------------------
(* The client request: generate, then execute *)

ClientInit ==
    /\ pc = "start"
    /\ response \in Responses
    /\ fallbackLacksSql \in BOOLEAN
    /\ genCalls = [primary |-> 0, fallback |-> 0]
    /\ generated = <<>>
    /\ verdicts = {}
    /\ execResult = <<>>
    /\ outcome = "none"

\* one call of generateSqlAndSummary: a single sendMessage, then the parse
GenerateSqlAndSummary ==
    /\ pc = "start"
    /\ genCalls' = [genCalls EXCEPT !.primary = @ + 1]
    /\ LET g == GenerateResult(response)
       IN  IF g.ok
           THEN /\ generated' = <<[sql |-> g.sql, summary |-> g.summary]>>
                /\ pc' = "generated"
                /\ outcome' = outcome
           ELSE /\ generated' = generated
                /\ pc' = "failed"
                /\ outcome' = "GenerationError"
    /\ UNCHANGED <<response, fallbackLacksSql, verdicts, execResult, appVars,
                   backendVars, voiceVars, tableVars, chatVars>>

\* executeQuery(sql) on the generated statement: resolves for every text
ExecuteQuery ==
    /\ pc = "generated"
    /\ execResult' = <<executeQuery(generated[1].sql)>>
    /\ pc' = "executed"
    /\ outcome' = "ok"
    /\ UNCHANGED <<response, fallbackLacksSql, genCalls, generated, verdicts, appVars,
                   backendVars, voiceVars, tableVars, chatVars>>

ClientNext == GenerateSqlAndSummary \/ ExecuteQuery

----------------------------------------------------------------------------
(* App: handleQuerySubmit against the backend *)

Queries == {<<"q1">>, <<"q2">>, <<"nl">>, <<>>}

NoSummary == [template |-> FALSE, text |-> "", n |-> 0]

Message(sender, type, content, summary) ==
    [sender |-> sender, type |-> type, content |-> content, summary |-> summary]

WelcomeMessage == Message("ai", "text", <<"Welcome">>, NoSummary)
StatusMessage == Message("ai", "status", <<"Processing your request...">>, NoSummary)

\* prev.filter(msg => !(msg.type === 'status' && msg.sender === 'ai'))
IsNotAiStatus(m) == ~(m.type = "status" /\ m.sender = "ai")
WithoutStatus(msgs) == SelectSeq(msgs, IsNotAiStatus)

\* a result set of n rows and w columns: a label column, then counts
Table(n, w) == [i \in 1..n |-> [j \in 1..w |-> IF j = 1 THEN Str("Theft") ELSE Num(120)]]

\* result sets of the backend: every row of a table has the table's width
Tables == {Table(n, w) : n \in 0..MaxRows, w \in 1..MaxCols}

ColumnNames(w) == [i \in 1..w |-> IF i = 1 THEN "crime_type" ELSE "count"]

Width(data) == IF data = <<>> THEN 0 ELSE Len(data[1])

\* backendResponse.results: columns, when sent, name the columns of data; the
\* rows of data are arrays, or objects keyed by column name (keyed), whose
\* values are then listed in key order
ResultsValues ==
    {[success |-> TRUE, row_count |-> Len(d), hasColumns |-> TRUE,
      columns |-> ColumnNames(w), hasData |-> TRUE, keyed |-> k, data |-> d] :
        d \in Tables, w \in 0..MaxCols, k \in BOOLEAN}
    \cup {[success |-> TRUE, row_count |-> Len(d), hasColumns |-> FALSE,
           columns |-> <<>>, hasData |-> TRUE, keyed |-> k, data |-> d] :
        d \in Tables, k \in BOOLEAN}
    \cup {[success |-> FALSE, row_count |-> 0, hasColumns |-> FALSE,
           columns |-> <<>>, hasData |-> FALSE, keyed |-> FALSE, data |-> <<>>]}

WellFormedResults ==
    {r \in ResultsValues : r.hasColumns /\ r.data # <<>> => Len(r.columns) = Width(r.data)}

NoResults ==
    [success |-> FALSE, row_count |-> 0, hasColumns |-> FALSE, columns |-> <<>>,
     hasData |-> FALSE, keyed |-> FALSE, data |-> <<>>]

\* what processQueryWithBackend settles with: thrown (fetch rejected or the
\* status was not ok) or the JSON body
BackendResponses ==
    {[thrown |-> FALSE, success |-> TRUE, sql |-> SqlAll, hasResults |-> TRUE,
      results |-> r, summary |-> sm, error |-> "", suggestion |-> ""] :
        r \in WellFormedResults, sm \in {"", "summary"}}
    \cup {[thrown |-> FALSE, success |-> sc, sql |-> q, hasResults |-> FALSE,
           results |-> NoResults, summary |-> "", error |-> e, suggestion |-> g] :
        sc \in BOOLEAN, q \in {<<>>, SqlAll}, e \in {"", "error"},
        g \in {"", "suggestion"}}
    \cup {[thrown |-> TRUE, success |-> FALSE, sql |-> <<>>, hasResults |-> FALSE,
           results |-> NoResults, summary |-> "", error |-> e, suggestion |-> ""] :
        e \in {"detail"}}

IndexName(k) == CASE k = 0 -> "0" [] k = 1 -> "1" [] k = 2 -> "2" [] OTHER -> "n"

\* Object.keys of a row: the indices of an array as strings, the property
\* names of an object
ObjectKeys(row, keyed) ==
    IF keyed THEN ColumnNames(Len(row)) ELSE [i \in 1..Len(row) |-> IndexName(i - 1)]

\* the QueryResult built from backendResponse.results
NewQueryResult(resp) ==
    LET r == resp.results
    IN  [columns |-> IF r.hasColumns THEN r.columns
                     ELSE IF r.hasData /\ Len(r.data) > 0
                          THEN ObjectKeys(r.data[1], r.keyed)
                     ELSE <<>>,
         rows |-> IF r.hasData THEN r.data ELSE <<>>,
         query |-> resp.sql]

\* the summary taken from the backend as it comes, empty or not
SummaryOfBackendOnly(resp) == [template |-> FALSE, text |-> resp.summary, n |-> 0]

\* backendResponse.summary || `Found ${row_count || 0} results.`
SummaryOf(resp) ==
    IF resp.summary # "" THEN [template |-> FALSE, text |-> resp.summary, n |-> 0]
    ELSE [template |-> TRUE, text |-> "Found results.", n |-> resp.results.row_count]

\* backendResponse.error || backendResponse.suggestion || 'Sorry, ...'
ErrorContent(resp) ==
    IF resp.error # "" THEN <<resp.error>>
    ELSE IF resp.suggestion # "" THEN <<resp.suggestion>>
    ELSE <<"Sorry, I could not process that request.">>

\* the status set only where the try block ran to its end
StatusAfterTryOnly(resp) == IF resp.thrown THEN "loading" ELSE "idle"

\* finally { setStatus('idle') }: whatever the try or the catch did
StatusAfterSettle(resp) == "idle"

\* only the empty string counts as blank
IsBlankEmptyOnly(q) == q = <<>>

\* !query.trim()
IsBlank(q) == Trim(q) = <<>>

AppInit ==
    /\ status = "idle"
    /\ error = <<>>
    /\ queryResult = <<>>
    /\ messages = <<WelcomeMessage>>
    /\ inflight = {}
    /\ submits = 0
    /\ hung = {}

\* handleQuerySubmit up to the await of processQueryWithBackend
HandleQuerySubmit(q) ==
    /\ submits < MaxSubmits
    /\ IF IsBlank(q)
       THEN UNCHANGED appVars
       ELSE /\ status' = "loading"
            /\ error' = <<>>
            /\ messages' = messages \o
                   <<Message("user", "text", q, NoSummary), StatusMessage>>
            /\ inflight' = inflight \cup {[id |-> submits + 1, query |-> q]}
            /\ submits' = submits + 1
            /\ UNCHANGED <<queryResult, hung>>
    /\ UNCHANGED <<clientVars, backendVars, voiceVars, tableVars, chatVars>>

\* handleQuerySubmit from the await on: the try body, the catch and the finally
BackendSettles(req, resp) ==
    /\ req \in inflight \ hung
    /\ inflight' = inflight \ {req}
    /\ status' = StatusAfterSettle(resp)
    /\ IF resp.thrown
       THEN /\ error' = <<"Failed to process your request:", resp.error>>
            /\ messages' = WithoutStatus(messages) \o
                   <<Message("ai", "error", <<"I'm sorry, I encountered an error:",
                                               resp.error>>, NoSummary)>>
            /\ queryResult' = <<>>
       ELSE IF resp.success /\ resp.sql # <<>> /\ resp.hasResults
       THEN /\ messages' = WithoutStatus(messages) \o
                   <<Message("ai", "sql", resp.sql, SummaryOf(resp))>>
            /\ queryResult' = <<NewQueryResult(resp)>>
            /\ UNCHANGED error
       ELSE /\ error' = ErrorContent(resp)
            /\ messages' = WithoutStatus(messages) \o
                   <<Message("ai", "error", ErrorContent(resp), NoSummary)>>
            /\ queryResult' = <<>>
    /\ UNCHANGED <<submits, hung, clientVars, backendVars, voiceVars, tableVars, chatVars>>

\* fetch(`${API_BASE_URL}/api/query/process`) carries no timeout and no abort
\* signal: a backend that accepts the request and never answers leaves the
\* promise pending for good
BackendNeverResponds(req) ==
    /\ req \in inflight \ hung
    /\ hung' = hung \cup {req}
    /\ UNCHANGED <<status, error, queryResult, messages, inflight, submits,
                   clientVars, backendVars, voiceVars, tableVars, chatVars>>

\* QueryInput.handleSubmit: the textarea and the send button are disabled
\* while status is 'loading'
TypedSubmit(q) ==
    /\ status # "loading"
    /\ HandleQuerySubmit(q)

\* the 500 ms timer of QueryInput.handleVoiceTranscription, or
\* App.handleTranscription when a transcription settles: onSubmit is called
\* whatever the status is by then
VoiceAutoSubmit(q) ==
    /\ q \in Queries
    /\ HandleQuerySubmit(q)

AppNext ==
    \/ \E q \in Queries : TypedSubmit(q)
    \/ \E q \in Queries : VoiceAutoSubmit(q)
    \/ \E req \in inflight, resp \in BackendResponses : BackendSettles(req, resp)

----------------------------------------------------------------------------
(* The backend request pipeline (the FastAPI service the App calls), after  *)
(* the specification text: LanguageNormalizer, SqlGenerator,                *)
(* SqlSafetyValidator, QueryExecutor, ResultShaper, ReportSummarizer.       *)
(* A candidate SQL text is a sequence of SQL tokens.                        *)

SqlTokens == {"SELECT", "select", "FIR", "TABLE", "DROP", "Drop", ";", "--", "/*"}

Candidates == SeqsUpTo(SqlTokens, MaxSqlLen) \ {<<>>}

\* the statements the generation models of the pipeline come up with
SampleCandidates ==
    {<<"SELECT", "FIR">>, <<"select", "FIR", ";">>, <<"DROP", "TABLE", "FIR">>,
     <<"SELECT", "FIR", ";", "Drop", "FIR">>, <<"SELECT", "FIR", "--">>}

\* case folding of an SQL token
UpperToken(tok) ==
    CASE tok = "select" -> "SELECT"
      [] tok = "Drop" -> "DROP"
      [] OTHER -> tok

MutatingKeywords ==
    {"INSERT", "UPDATE", "DELETE", "DROP", "ALTER", "TRUNCATE", "CREATE", "GRANT",
     "REVOKE"}

CommentMarkers == {"--", "/*", "*/"}

\* a keyword test that compares the token as written
IsMutatingKeywordAsWritten(tok) == tok \in MutatingKeywords

IsMutatingKeyword(tok) == UpperToken(tok) \in MutatingKeywords

HasToken(S, toks) == \E i \in 1..Len(S) : S[i] \in toks

\* the statement text without its single optional trailing terminator
StripTerminator(S) ==
    IF Len(S) > 0 /\ S[Len(S)] = ";" THEN SubSeq(S, 1, Len(S) - 1) ELSE S

Accepted == [state |-> "ACCEPTED", allowed |-> TRUE, reason |-> "none"]
Rejected(why) == [state |-> "REJECTED", allowed |-> FALSE, reason |-> why]

\* the validator's single transition from RECEIVED, checks (a) to (e) in turn,
\* anything it cannot place rejected
SqlSafetyValidator(S) ==
    LET body == StripTerminator(S)
    IN  IF body = <<>> THEN Rejected("no statement")
        ELSE IF HasToken(body, {";"}) THEN Rejected("statement separator")
        ELSE IF HasToken(body, CommentMarkers) THEN Rejected("comment marker")
        ELSE IF UpperToken(body[1]) # "SELECT" THEN Rejected("not a SELECT")
        ELSE IF Len(body) < 2 THEN Rejected("unparseable")
        ELSE IF \E i \in 1..Len(body) : IsMutatingKeyword(body[i])
             THEN Rejected("mutating keyword")
        ELSE Accepted

StageOrder ==
    <<"LanguageNormalizer", "SqlGenerator", "SqlSafetyValidator", "QueryExecutor",
      "ResultShaper", "ReportSummarizer">>

\* the stage a step of the pipeline belongs to
StageOf(step) ==
    CASE step \in {"stt_primary", "stt_fallback", "translate_primary",
                   "translate_fallback", "correct"} -> "LanguageNormalizer"
      [] step \in {"generate_primary", "generate_fallback"} -> "SqlGenerator"
      [] step = "validate" -> "SqlSafetyValidator"
      [] step \in {"execute_primary", "execute_secondary"} -> "QueryExecutor"
      [] step = "shape" -> "ResultShaper"
      [] step = "summarize" -> "ReportSummarizer"
      [] OTHER -> "none"

\* blank: a text input that is empty or whitespace only
Inputs ==
    [kind : {"audio", "text"}, language : {"en", "te"}, secondary : BOOLEAN,
     blank : {FALSE}]
    \cup [kind : {"text"}, language : {"en", "te"}, secondary : BOOLEAN, blank : {TRUE}]

SttOutcomes == {"ok", "low_confidence", "model_error"}
CallOutcomes == {"ok", "error"}
ExecOutcomes ==
    {"ok", "ConnectionError", "SyntaxError", "PermissionError", "TimeoutError",
     "UnknownError"}

\* low confidence counts as a provider failure
NeedsFallbackOnAnyDoubt(o) == o # "ok"

\* the primary speech-to-text provider failed: a model error, not low confidence
NeedsFallback(o) == o = "model_error"

\* timeouts are retried as well
RetryableOrTimeout(o) == o \in {"ConnectionError", "TimeoutError"}

\* the one executor failure that may be retried
Retryable(o) == o = "ConnectionError"

\* a rejected statement goes back to the generator
OnVerdictRegenerate(v) == IF v.allowed THEN "execute_primary" ELSE "generate_primary"

\* where the request goes after the verdict
OnVerdict(v) == IF v.allowed THEN "execute_primary" ELSE "failed"

\* the step after a transcript or a typed text is at hand
AfterText(language) == IF language = "en" THEN "correct" ELSE "translate_primary"

Goto(step) ==
    /\ bpc' = step
    /\ entered' = IF StageOf(step) # "none" /\ StageOf(step) # StageOf(bpc)
                  THEN Append(entered, StageOf(step))
                  ELSE entered

Call(provider, o) == calls' = Append(calls, [provider |-> provider, outcome |-> o])

Fail(stage, kind) == failure' = <<[stage |-> stage, kind |-> kind]>>

notBackend == <<clientVars, appVars, voiceVars, tableVars, chatVars>>

BackendIdle ==
    /\ bpc = "idle"
    /\ input = [kind |-> "text", language |-> "en", secondary |-> FALSE, blank |-> FALSE]
    /\ entered = <<>>
    /\ produced = {}
    /\ calls = <<>>
    /\ candidate = <<>>
    /\ verdict = <<>>
    /\ failure = <<>>

BackendInit ==
    /\ bpc = "received"
    /\ input \in Inputs
    /\ entered = <<>>
    /\ produced = {}
    /\ calls = <<>>
    /\ candidate = <<>>
    /\ verdict = <<>>
    /\ failure = <<>>

\* empty or unusable input is an InputError, a hard stop
RejectsAtIntake(i) == i.blank

Receive ==
    /\ bpc = "received"
    /\ IF RejectsAtIntake(input)
       THEN Goto("failed") /\ Fail("Intake", "InputError")
       ELSE /\ Goto(IF input.kind = "audio" THEN "stt_primary"
                    ELSE AfterText(input.language))
            /\ UNCHANGED failure
    /\ UNCHANGED <<notBackend, input, produced, calls, candidate, verdict>>

SttPrimary(o) ==
    /\ bpc = "stt_primary"
    /\ Call("stt.primary", o)
    /\ Goto(IF NeedsFallback(o) THEN "stt_fallback" ELSE AfterText(input.language))
    /\ UNCHANGED <<notBackend, input, produced, candidate, verdict, failure>>

SttFallback(o) ==
    /\ bpc = "stt_fallback"
    /\ Call("stt.fallback", o)
    /\ IF o = "model_error"
       THEN Goto("failed") /\ Fail("LanguageNormalizer", "TranscriptionError")
       ELSE Goto(AfterText(input.language)) /\ UNCHANGED failure
    /\ UNCHANGED <<notBackend, input, produced, candidate, verdict>>

TranslatePrimary(o) ==
    /\ bpc = "translate_primary"
    /\ Call("translate.primary", o)
    /\ Goto(IF o = "ok" THEN "correct" ELSE "translate_fallback")
    /\ UNCHANGED <<notBackend, input, produced, candidate, verdict, failure>>

TranslateFallback(o) ==
    /\ bpc = "translate_fallback"
    /\ Call("translate.fallback", o)
    /\ IF o = "ok"
       THEN Goto("correct") /\ UNCHANGED failure
       ELSE Goto("failed") /\ Fail("LanguageNormalizer", "TranslationError")
    /\ UNCHANGED <<notBackend, input, produced, candidate, verdict>>

\* the correction pass; its failure degrades to pass-through
Correct(o) ==
    /\ bpc = "correct"
    /\ Call("correct", o)
    /\ produced' = produced \cup {"LanguageNormalizer"}
    /\ Goto("generate_primary")
    /\ UNCHANGED <<notBackend, input, candidate, verdict, failure>>

\* out is <<>> (no parseable payload with both fields) or <<sql>>
GeneratePrimary(out) ==
    /\ bpc = "generate_primary"
    /\ Call("generate.primary", IF out = <<>> THEN "error" ELSE "ok")
    /\ IF out = <<>>
       THEN Goto("generate_fallback") /\ UNCHANGED <<candidate, produced>>
       ELSE /\ candidate' = out
            /\ produced' = produced \cup {"SqlGenerator"}
            /\ Goto("validate")
    /\ UNCHANGED <<notBackend, input, verdict, failure>>

GenerateFallback(out) ==
    /\ bpc = "generate_fallback"
    /\ Call("generate.fallback", IF out = <<>> THEN "error" ELSE "ok")
    /\ IF out = <<>>
       THEN /\ Goto("failed")
            /\ Fail("SqlGenerator", "GenerationError")
            /\ UNCHANGED <<candidate, produced>>
       ELSE /\ candidate' = out
            /\ produced' = produced \cup {"SqlGenerator"}
            /\ Goto("validate")
            /\ UNCHANGED failure
    /\ UNCHANGED <<notBackend, input, verdict>>

Validate ==
    /\ bpc = "validate"
    /\ LET v == SqlSafetyValidator(candidate[1])
       IN  /\ verdict' = <<v>>
           /\ Goto(OnVerdict(v))
           /\ IF v.allowed
              THEN UNCHANGED failure
              ELSE Fail("SqlSafetyValidator", "SafetyViolation")
    /\ produced' = produced \cup {"SqlSafetyValidator"}
    /\ UNCHANGED <<notBackend, input, calls, candidate>>

ExecutePrimary(o) ==
    /\ bpc = "execute_primary"
    /\ Call("execute.primary", o)
    /\ IF o = "ok"
       THEN /\ produced' = produced \cup {"QueryExecutor"}
            /\ Goto("shape")
            /\ UNCHANGED failure
       ELSE IF Retryable(o) /\ input.secondary
       THEN Goto("execute_secondary") /\ UNCHANGED <<produced, failure>>
       ELSE Goto("failed") /\ Fail("QueryExecutor", o) /\ UNCHANGED produced
    /\ UNCHANGED <<notBackend, input, candidate, verdict>>

ExecuteSecondary(o) ==
    /\ bpc = "execute_secondary"
    /\ Call("execute.secondary", o)
    /\ IF o = "ok"
       THEN /\ produced' = produced \cup {"QueryExecutor"}
            /\ Goto("shape")
            /\ UNCHANGED failure
       ELSE Goto("failed") /\ Fail("QueryExecutor", o) /\ UNCHANGED produced
    /\ UNCHANGED <<notBackend, input, candidate, verdict>>

Shape ==
    /\ bpc = "shape"
    /\ produced' = produced \cup {"ResultShaper"}
    /\ Goto("summarize")
    /\ UNCHANGED <<notBackend, input, calls, candidate, verdict, failure>>

\* the summarization call; on failure the template stands in
Summarize(o) ==
    /\ bpc = "summarize"
    /\ Call("summarize", o)
    /\ produced' = produced \cup {"ReportSummarizer"}
    /\ Goto("done")
    /\ UNCHANGED <<notBackend, input, candidate, verdict, failure>>

BackendNext ==
    \/ Receive
    \/ \E o \in SttOutcomes : SttPrimary(o)
    \/ \E o \in SttOutcomes : SttFallback(o)
    \/ \E o \in CallOutcomes : TranslatePrimary(o)
    \/ \E o \in CallOutcomes : TranslateFallback(o)
    \/ \E o \in CallOutcomes : Correct(o)
    \/ \E out \in {<<>>} \cup {<<c>> : c \in SampleCandidates} : GeneratePrimary(out)
    \/ \E out \in {<<>>} \cup {<<c>> : c \in SampleCandidates} : GenerateFallback(out)
    \/ Validate
    \/ \E o \in ExecOutcomes : ExecutePrimary(o)
    \/ \E o \in ExecOutcomes : ExecuteSecondary(o)
    \/ Shape
    \/ \E o \in CallOutcomes : Summarize(o)

\* a candidate of any shape handed to the validator
ValidatorInit ==
    /\ bpc = "validate"
    /\ input = [kind |-> "text", language |-> "en", secondary |-> FALSE, blank |-> FALSE]
    /\ entered = SubSeq(StageOrder, 1, 3)
    /\ produced = {"LanguageNormalizer", "SqlGenerator"}
    /\ calls = <<>>
    /\ candidate \in {<<c>> : c \in Candidates}
    /\ verdict = <<>>
    /\ failure = <<>>

----------------------------------------------------------------------------
(* Voice input: useVoiceRecording, VoiceInput.handleVoiceToggle and          *)
(* transcribeAudio.  Every MediaRecorder created is kept in recorders;       *)
(* recorder is mediaRecorderRef.current as an index into it (0 for null).    *)

\* what a recording holds: speech, sound without words, or no data at all
Audio == {"speech", "noise", "empty"}
Unusable == {"noise", "empty"}

NoError == <<>>

\* the JSON body of /api/voice/transcribe: transcription is <<>> (absent) or
\* <<text>>, a text being a sequence of words
TranscribeResponses ==
    [httpOk : BOOLEAN, success : {"true", "false", "absent"},
     transcription : {<<>>, << <<>> >>, << <<"w">> >>}]

\* the service's answers to audio without a usable utterance
FailureResponses == {r \in TranscribeResponses : ~r.httpOk \/ r.success = "false"}

ResponsesTo(a) == IF a \in Unusable THEN FailureResponses ELSE TranscribeResponses

\* transcribeAudio on a response: a VoiceTranscriptionResult or a thrown Error
transcribeAudio(r) ==
    IF ~r.httpOk THEN [ok |-> FALSE, text |-> <<>>, message |-> "detail"]
    ELSE IF r.success = "false" \/ (r.success = "true" /\ r.transcription = <<>>)
    THEN [ok |-> FALSE, text |-> <<>>, message |-> "Transcription failed or no text found"]
    ELSE IF r.transcription = <<>>
    THEN [ok |-> FALSE, text |-> <<>>, message |-> "TypeError"]
    ELSE [ok |-> TRUE, text |-> r.transcription[1], message |-> "none"]

\* transcribed: how many times transcribeAudio was called for the recording
NewRecorder(a) ==
    [state |-> "recording", onstop |-> 0, stopQueued |-> FALSE, audio |-> a,
     live |-> TRUE, transcribed |-> 0]

\* the chunk list taken for non-empty whatever it holds
HasChunksAlways(n) == TRUE

\* audioChunksRef.current.length > 0
HasChunks(n) == n > 0

Promise(st, a) == [state |-> st, audio |-> a]

\* resolve or reject of promise k: the first settlement stands
Settle(ps, k, st) ==
    IF ps[k].state = "pending" THEN [ps EXCEPT ![k].state = st] ELSE ps

\* the state update of the explicit onstop with isRecording left as it was
OnStopStateKeepsRecording(v) == [v EXCEPT !.isProcessing = TRUE, !.error = NoError]

\* setState(prev => ({ ...prev, isRecording: false, isProcessing: true, error: null }))
OnStopState(v) == [isRecording |-> FALSE, isProcessing |-> TRUE, error |-> NoError]

notVoice == <<clientVars, appVars, backendVars, tableVars, chatVars>>

VoiceInit ==
    /\ voice = [isRecording |-> FALSE, isProcessing |-> FALSE, error |-> NoError]
    /\ langFetched = FALSE
    /\ recorders = <<>>
    /\ recorder = 0
    /\ chunks = 0
    /\ gumPending = 0
    /\ promises = <<>>
    /\ transcribing = {}
    /\ submitted = <<>>
    /\ clicks = 0

\* fetchLangs of the mount effect reaches its finally
FetchLangsSettles ==
    /\ ~langFetched
    /\ langFetched' = TRUE
    /\ UNCHANGED <<notVoice, voice, recorders, recorder, chunks, gumPending, promises,
                   transcribing, submitted, clicks>>

\* the button is enabled and handleVoiceToggle passes its guard
CanToggle == langFetched /\ status # "loading" /\ ~voice.isProcessing /\ clicks < MaxClicks

\* handleVoiceToggle, not recording: clearError, startRecording up to the await
ClickStart ==
    /\ CanToggle
    /\ ~voice.isRecording
    /\ voice' = [voice EXCEPT !.isRecording = TRUE, !.error = NoError]
    /\ gumPending' = gumPending + 1
    /\ clicks' = clicks + 1
    /\ UNCHANGED <<notVoice, langFetched, recorders, recorder, chunks, promises,
                   transcribing, submitted>>

\* startRecording after getUserMedia resolved: a new recorder, started
GetUserMediaResolves(a) ==
    /\ gumPending > 0
    /\ gumPending' = gumPending - 1
    /\ recorders' = Append(recorders, NewRecorder(a))
    /\ recorder' = Len(recorders) + 1
    /\ chunks' = 0
    /\ UNCHANGED <<notVoice, voice, langFetched, promises, transcribing, submitted,
                   clicks>>

\* startRecording's catch
GetUserMediaRejects ==
    /\ gumPending > 0
    /\ gumPending' = gumPending - 1
    /\ voice' = [voice EXCEPT !.isRecording = FALSE, !.error = <<"microphone">>]
    /\ UNCHANGED <<notVoice, langFetched, recorders, recorder, chunks, promises,
                   transcribing, submitted, clicks>>

\* handleVoiceToggle, recording: clearError, then stopRecording's executor
ClickStop ==
    /\ CanToggle
    /\ voice.isRecording
    /\ clicks' = clicks + 1
    /\ LET k == Len(promises) + 1
       IN  IF recorder # 0
           THEN LET r == recorders[recorder]
                IN  IF r.state = "recording"
                    THEN \* stop(): inactive at once, the events follow
                         /\ recorders' = [recorders EXCEPT ![recorder] =
                               [r EXCEPT !.onstop = k, !.state = "inactive",
                                         !.stopQueued = TRUE]]
                         /\ promises' = Append(promises, Promise("pending", r.audio))
                         /\ voice' = [voice EXCEPT !.error = NoError]
                         /\ UNCHANGED <<recorder, transcribing>>
                    ELSE IF HasChunks(chunks)
                    THEN \* the new onstop called directly
                         /\ recorders' = [recorders EXCEPT ![recorder] =
                               [r EXCEPT !.onstop = k,
                                         !.transcribed = r.transcribed + 1]]
                         /\ promises' = Append(promises, Promise("pending", r.audio))
                         /\ voice' = OnStopState(voice)
                         /\ transcribing' =
                               transcribing \cup {[promise |-> k, audio |-> r.audio]}
                         /\ UNCHANGED recorder
                    ELSE \* inactive and no chunk: resolve(null)
                         /\ recorders' = [recorders EXCEPT ![recorder].onstop = k]
                         /\ promises' = Append(promises, Promise("null", r.audio))
                         /\ voice' = [isRecording |-> FALSE, isProcessing |-> FALSE,
                                      error |-> NoError]
                         /\ UNCHANGED <<recorder, transcribing>>
           ELSE \* no recorder: reject, which handleVoiceToggle's catch drops
                /\ promises' = Append(promises, Promise("rejected", "none"))
                /\ voice' = [isRecording |-> FALSE, isProcessing |-> FALSE,
                             error |-> NoError]
                /\ UNCHANGED <<recorders, recorder, transcribing>>
    /\ UNCHANGED <<notVoice, langFetched, chunks, gumPending, submitted>>

\* the tracks of recorder i end on their own (device unplugged, permission
\* revoked): the recorder goes inactive and its events follow
StreamEnds(i) ==
    /\ recorders[i].state = "recording"
    /\ recorders' = [recorders EXCEPT ![i].state = "inactive", ![i].stopQueued = TRUE,
                                      ![i].live = FALSE]
    /\ UNCHANGED <<notVoice, voice, langFetched, recorder, chunks, gumPending, promises,
                   transcribing, submitted, clicks>>

\* dataavailable, then stop, of recorder i: the chunk is pushed when it has
\* data, then the onstop handler installed at that moment runs (0: the one
\* startRecording installed, whose state.isProcessing is the false it closed
\* over; k: the one the k-th stopRecording installed, up to its await)
DeliverStop(i) ==
    /\ recorders[i].stopQueued
    /\ LET r == recorders[i]
           n == IF r.audio = "empty" THEN chunks ELSE chunks + 1
       IN  /\ chunks' = n
           /\ recorders' = [recorders EXCEPT ![i] =
                 [r EXCEPT !.stopQueued = FALSE,
                           !.transcribed = IF r.onstop = 0 THEN r.transcribed
                                           ELSE r.transcribed + 1]]
           /\ IF r.onstop = 0
              THEN /\ voice' = IF n = 0 THEN voice
                               ELSE [voice EXCEPT !.isRecording = FALSE,
                                                  !.isProcessing = TRUE]
                   /\ UNCHANGED transcribing
              ELSE /\ voice' = OnStopState(voice)
                   /\ transcribing' = transcribing \cup
                         {[promise |-> r.onstop,
                           audio |-> IF n = 0 THEN "empty" ELSE r.audio]}
    /\ UNCHANGED <<notVoice, langFetched, recorder, gumPending, promises, submitted,
                   clicks>>

\* the tracks of the current recorder are stopped and the ref cleared
ReleaseRecorder(rs, cur) ==
    IF cur = 0 THEN rs
    ELSE [rs EXCEPT ![cur] =
            [@ EXCEPT !.live = FALSE,
                      !.state = "inactive",
                      !.stopQueued = (@ \/ rs[cur].state = "recording")]]

\* the explicit onstop from its await on: transcribeAudio settles, the promise
\* is settled, handleVoiceToggle passes a text on, the finally releases
TranscribeSettles(t, resp) ==
    /\ t \in transcribing
    /\ transcribing' = transcribing \ {t}
    /\ LET res == transcribeAudio(resp)
       IN  IF res.ok
           THEN /\ voice' = [voice EXCEPT !.isProcessing = FALSE]
                /\ promises' = Settle(promises, t.promise, "result")
                /\ submitted' =
                      IF promises[t.promise].state = "pending" /\ res.text # <<>>
                      THEN Append(submitted, t.audio)
                      ELSE submitted
           ELSE /\ voice' = [voice EXCEPT !.isProcessing = FALSE,
                                          !.error = <<res.message>>]
                /\ promises' = Settle(promises, t.promise, "rejected")
                /\ UNCHANGED submitted
    /\ recorders' = ReleaseRecorder(recorders, recorder)
    /\ recorder' = 0
    /\ UNCHANGED <<notVoice, langFetched, chunks, gumPending, clicks>>

VoiceNext ==
    \/ FetchLangsSettles
    \/ ClickStart
    \/ \E a \in Audio : GetUserMediaResolves(a)
    \/ GetUserMediaRejects
    \/ ClickStop
    \/ \E i \in 1..Len(recorders) : StreamEnds(i)
    \/ \E i \in 1..Len(recorders) : DeliverStop(i)
    \/ \E t \in transcribing : \E resp \in ResponsesTo(t.audio) : TranscribeSettles(t, resp)

----------------------------------------------------------------------------
(* DataTable: the chartData memo and the pagination.  A cell is a string or  *)
(* a number (QueryResult.rows is (string | number)[][]); the outcome of the  *)
(* memo records which return statement produced the series, and raised when  *)
(* the callback threw instead of returning.                                  *)

rowsPerPage == 10

ChartCells ==
    {Str("Theft"), Str("Assault"), Str("2023-01-15"), Str("2023-01-20"),
     Str("2023-02-03"), Num(120), Num(45)}

\* every grid of n rows and w columns over the cells
Grids(n, w) == [1..n -> [1..w -> ChartCells]]

\* eleven rows, one more than a page holds
LongTable(w) ==
    [i \in 1..(rowsPerPage + 1) |->
        [j \in 1..w |-> IF j = 1 THEN Str(IF i % 2 = 1 THEN "Theft" ELSE "Assault")
                        ELSE Num(IF i % 2 = 1 THEN 120 ELSE 45)]]

ChartTables ==
    UNION {UNION {Grids(n, w) : w \in 0..(MaxCells \div n)} : n \in 1..MaxCells}
    \cup {LongTable(w) : w \in 1..2}

\* the QueryResult values handed to DataTable
ChartInputs ==
    {[columns |-> ColumnNames(Width(g)), rows |-> g, query |-> SqlAll] : g \in ChartTables}
    \cup {[columns |-> ColumnNames(w), rows |-> <<>>, query |-> SqlAll] : w \in 0..2}

\* Math.ceil(data.rows.length / rowsPerPage)
TotalPages(d) == (Len(d.rows) + rowsPerPage - 1) \div rowsPerPage

\* data.rows.slice((currentPage - 1) * rowsPerPage, currentPage * rowsPerPage)
PaginatedRows(d, page) ==
    SubSeq(d.rows, (page - 1) * rowsPerPage + 1,
           IF page * rowsPerPage < Len(d.rows) THEN page * rowsPerPage ELSE Len(d.rows))

\* the rows the memo reads when the rows of the page shown are charted
ChartRowsOfPage(d, page) == PaginatedRows(d, page)

\* the rows the memo reads: data.rows, with [data] as its only dependency
ChartRows(d, page) == d.rows

\* String(cell)
CellText(c) == IF c.isNum THEN ToString(c.n) ELSE c.s

\* Number(cell): no string among the cells reads as a number
NumberOf(c) == IF c.isNum THEN [nan |-> FALSE, n |-> c.n] ELSE [nan |-> TRUE, n |-> 0]

Count(n) == [nan |-> FALSE, n |-> n]

\* /^\d{4}-\d{2}-\d{2}$/.test(s), over the strings of the cells
DateRegexTest(s) == s \in {"2023-01-15", "2023-01-20", "2023-02-03"}

\* s.substring(0, 7)
Substring07(s) ==
    CASE s \in {"2023-01-15", "2023-01-20"} -> "2023-01"
      [] s = "2023-02-03" -> "2023-02"
      [] OTHER -> s

\* the order of a.localeCompare(b) over the keys an aggregation can hold
LocaleRank(name) ==
    CASE name = "120" -> 1
      [] name = "2023-01" -> 2
      [] name = "2023-02" -> 3
      [] name = "45" -> 4
      [] name = "Assault" -> 5
      [] OTHER -> 6

\* firstRow.findIndex(cell => typeof cell === 'number'), 0 for -1
NumericColumnIndex(firstRow) ==
    IF \E i \in 1..Len(firstRow) : firstRow[i].isNum
    THEN CHOOSE i \in 1..Len(firstRow) :
            firstRow[i].isNum /\ \A j \in 1..(i - 1) : ~firstRow[j].isNum
    ELSE 0

\* the label column taken to be the first column other than the numeric one,
\* whatever it holds
StringColumnIndexAnyType(firstRow, numericColumnIndex) ==
    IF \E i \in 1..Len(firstRow) : i # numericColumnIndex
    THEN CHOOSE i \in 1..Len(firstRow) :
            i # numericColumnIndex /\ \A j \in 1..(i - 1) : j = numericColumnIndex
    ELSE 1

\* the label column of Strategy 1: the first string column other than the
\* numeric one, else the first other column, else column 0
StringColumnIndex(firstRow, numericColumnIndex) ==
    IF \E i \in 1..Len(firstRow) : ~firstRow[i].isNum /\ i # numericColumnIndex
    THEN CHOOSE i \in 1..Len(firstRow) :
            /\ ~firstRow[i].isNum /\ i # numericColumnIndex
            /\ \A j \in 1..(i - 1) : firstRow[j].isNum \/ j = numericColumnIndex
    ELSE IF \E i \in 1..Len(firstRow) : i # numericColumnIndex
    THEN CHOOSE i \in 1..Len(firstRow) :
            i # numericColumnIndex /\ \A j \in 1..(i - 1) : j = numericColumnIndex
    ELSE 1

\* firstRow.findIndex(cell => typeof cell === 'string' && dateRegex.test(cell))
DateColumnIndex(firstRow) ==
    IF \E i \in 1..Len(firstRow) : ~firstRow[i].isNum /\ DateRegexTest(firstRow[i].s)
    THEN CHOOSE i \in 1..Len(firstRow) :
            /\ ~firstRow[i].isNum /\ DateRegexTest(firstRow[i].s)
            /\ \A j \in 1..(i - 1) : firstRow[j].isNum \/ ~DateRegexTest(firstRow[j].s)
    ELSE 0

\* firstRow.findIndex(cell => typeof cell === 'string')
LabelColumnIndex(firstRow) ==
    IF \E i \in 1..Len(firstRow) : ~firstRow[i].isNum
    THEN CHOOSE i \in 1..Len(firstRow) :
            ~firstRow[i].isNum /\ \A j \in 1..(i - 1) : firstRow[j].isNum
    ELSE 0

\* acc[key] = (acc[key] || 0) + 1, the keys of acc kept in insertion order
Bump(acc, key) ==
    IF \E i \in 1..Len(acc) : acc[i].name = key
    THEN [i \in 1..Len(acc) |->
            IF acc[i].name = key THEN [name |-> key, value |-> acc[i].value + 1]
            ELSE acc[i]]
    ELSE Append(acc, [name |-> key, value |-> 1])

RECURSIVE Reduce(_, _)
\* keys.reduce(Bump, acc)
Reduce(keys, acc) ==
    IF keys = <<>> THEN acc ELSE Reduce(Tail(keys), Bump(acc, Head(keys)))

\* the keys that are array indices ("120", "45"): an object lists these first
IndexKeys == {ToString(c.n) : c \in {d \in ChartCells : d.isNum}}

IndexOf(key) == CHOOSE n \in {c.n : c \in {d \in ChartCells : d.isNum}} : ToString(n) = key

RECURSIVE SortByRank(_, _)
\* a stable ascending sort of entries by rank[name]
SortByRank(entries, rank) ==
    IF entries = <<>> THEN <<>>
    ELSE LET low == CHOOSE i \in 1..Len(entries) :
                       /\ \A j \in 1..Len(entries) : rank[entries[i].name] <= rank[entries[j].name]
                       /\ \A j \in 1..(i - 1) : rank[entries[j].name] > rank[entries[i].name]
         IN  <<entries[low]>> \o
             SortByRank([k \in 1..(Len(entries) - 1) |->
                            IF k < low THEN entries[k] ELSE entries[k + 1]], rank)

NamesOf(entries) == {entries[i].name : i \in 1..Len(entries)}

\* Object.entries(aggregation): index keys in ascending numeric order, then the
\* other keys in insertion order
ObjectEntries(acc) ==
    LET isIndex(e) == e.name \in IndexKeys
        notIndex(e) == e.name \notin IndexKeys
        index == SelectSeq(acc, isIndex)
    IN  SortByRank(index, [k \in NamesOf(index) |-> IndexOf(k)]) \o SelectSeq(acc, notIndex)

\* the entries left in the order Object.entries lists them
SortByNameSkipped(entries) == entries

\* .sort((a, b) => a.name.localeCompare(b.name))
SortByName(entries) == SortByRank(entries, [k \in NamesOf(entries) |-> LocaleRank(k)])

\* more than zero categories taken to be enough for a chart
IsComparableOneCategory(categories) == categories > 0

\* Object.keys(aggregation).length > 1
IsComparable(categories) == categories > 1

Points(entries) ==
    [i \in 1..Len(entries) |-> [name |-> entries[i].name, value |-> Count(entries[i].value)]]

Chart(strategy, label, value, series) ==
    [raised |-> FALSE, strategy |-> strategy, labelColumn |-> label,
     valueColumn |-> value, series |-> series]

\* return []
NoChart == Chart("none", 0, 0, <<>>)

\* the callback threw a TypeError
Raised == [raised |-> TRUE, strategy |-> "none", labelColumn |-> 0, valueColumn |-> 0,
           series |-> <<>>]

\* Strategy 1: one point per row, its label and its value read from the row
Strategy1(rows, numericColumnIndex) ==
    LET stringColumnIndex == StringColumnIndex(rows[1], numericColumnIndex)
    IN  Chart("categorical-value", stringColumnIndex, numericColumnIndex,
              [i \in 1..Len(rows) |->
                  [name |-> CellText(rows[i][stringColumnIndex]),
                   value |-> NumberOf(rows[i][numericColumnIndex])]])

\* Strategy 2: rows counted per dateStr.substring(0, 7); a number has no
\* substring method, so a row holding one in the date column throws
Strategy2(rows, dateColumnIndex) ==
    IF \E i \in 1..Len(rows) : rows[i][dateColumnIndex].isNum
    THEN Raised
    ELSE Chart("date-count", dateColumnIndex, 0,
               Points(SortByName(ObjectEntries(
                   Reduce([i \in 1..Len(rows) |-> Substring07(rows[i][dateColumnIndex].s)],
                          <<>>)))))

\* Strategy 3: rows counted per String(row[labelColumnIndex])
Strategy3(rows, labelColumnIndex) ==
    LET aggregation == Reduce([i \in 1..Len(rows) |-> CellText(rows[i][labelColumnIndex])],
                              <<>>)
    IN  IF IsComparable(Len(aggregation))
        THEN Chart("category-count", labelColumnIndex, 0, Points(ObjectEntries(aggregation)))
        ELSE NoChart

\* the useMemo callback
chartData(rows) ==
    IF Len(rows) < 1 THEN NoChart
    ELSE IF NumericColumnIndex(rows[1]) # 0
    THEN Strategy1(rows, NumericColumnIndex(rows[1]))
    ELSE IF DateColumnIndex(rows[1]) # 0
    THEN Strategy2(rows, DateColumnIndex(rows[1]))
    ELSE IF LabelColumnIndex(rows[1]) # 0
    THEN Strategy3(rows, LabelColumnIndex(rows[1]))
    ELSE NoChart

notTable == <<clientVars, appVars, backendVars, voiceVars, chatVars>>

NoQueryResult == [columns |-> <<>>, rows |-> <<>>, query |-> <<>>]

TableIdle ==
    /\ tableData = NoQueryResult
    /\ chartMemo = <<>>
    /\ currentPage = 1

\* DataTable mounted with a result: useState(1), the memo not yet run
TableInit ==
    /\ tableData \in ChartInputs
    /\ chartMemo = <<>>
    /\ currentPage = 1

\* a render of DataTable runs the memo callback
RenderChart ==
    /\ chartMemo' = <<chartData(ChartRows(tableData, currentPage))>>
    /\ UNCHANGED <<notTable, tableData, currentPage>>

\* handlePageChange(newPage)
HandlePageChange(newPage) ==
    /\ currentPage' = IF newPage >= 1 /\ newPage <= TotalPages(tableData)
                      THEN newPage ELSE currentPage
    /\ UNCHANGED <<notTable, tableData, chartMemo>>

\* the results a later query may bring: more than a page of rows, or one cell
NewResults ==
    {d \in ChartInputs :
        Len(d.rows) > rowsPerPage \/ (Len(d.rows) = 1 /\ Width(d.rows) = 1)}

\* App sets a new queryResult while DataTable stays mounted (ResultsDisplay
\* renders <DataTable data={result} /> for every result, and handleQuerySubmit
\* keeps the old result while loading): the data prop changes, the state of
\* useState(1) is kept, and the render runs the memo
ReceiveData(d) ==
    /\ d # tableData
    /\ tableData' = d
    /\ chartMemo' = <<chartData(ChartRows(d, currentPage))>>
    /\ UNCHANGED <<notTable, currentPage>>

TableNext ==
    \/ RenderChart
    \/ \E d \in NewResults : ReceiveData(d)
    \/ \E newPage \in 0..(TotalPages(tableData) + 1) : HandlePageChange(newPage)

----------------------------------------------------------------------------
(* The generation chat: initChat and the request generateSqlAndSummary      *)
(* sends.  The schema text and the prompt text are constants of the module;  *)
(* each stands here for its text.                                            *)

CCTNS_SCHEMA == "CCTNS_SCHEMA"

SQL_GENERATION_PROMPT == "SQL_GENERATION_PROMPT"

NoInstruction == "none"

\* the system instruction taken to go out with the first message of a chat only
SystemInstructionFirstOnly(c, merges) ==
    IF c.history = <<>> THEN c.config.systemInstruction ELSE NoInstruction

\* the system instruction a request carries: sendMessage is given a config of
\* its own, { responseMimeType }, which the SDK either merges into the chat's
\* config or uses in its place
SystemInstructionOf(c, merges) ==
    IF merges THEN c.config.systemInstruction ELSE NoInstruction

notChat == <<clientVars, appVars, backendVars, voiceVars, tableVars>>

ChatIdle ==
    /\ sdkMerges = FALSE
    /\ chat = <<>>
    /\ sent = <<>>

ChatInit ==
    /\ sdkMerges \in BOOLEAN
    /\ chat = <<>>
    /\ sent = <<>>

\* initChat(): ai.chats.create({ model, config: { systemInstruction: CCTNS_SCHEMA } })
InitChat ==
    /\ chat' = <<[config |-> [systemInstruction |-> CCTNS_SCHEMA], history |-> <<>>]>>
    /\ UNCHANGED <<notChat, sdkMerges, sent>>

\* generateSqlAndSummary(chat, query): the prompt is built and sent; the chat
\* keeps the prompt in its history
SendMessage(q) ==
    /\ chat # <<>>
    /\ Len(sent) < MaxCalls
    /\ LET prompt == <<SQL_GENERATION_PROMPT, q>>
       IN  /\ sent' = Append(sent, [systemInstruction |->
                                        SystemInstructionOf(chat[1], sdkMerges),
                                    history |-> chat[1].history,
                                    message |-> prompt])
           /\ chat' = <<[chat[1] EXCEPT !.history = Append(@, prompt)]>>
    /\ UNCHANGED <<notChat, sdkMerges>>

ChatNext ==
    \/ InitChat
    \/ \E q \in Queries : SendMessage(q)

----------------------------------------------------------------------------
(* Specifications *)

\* the generation responses that are one bare payload with a usable summary
StrictResponses ==
    {[ok |-> TRUE, toks |-> <<"json">>,
      payload |-> [kind |-> "object", sql |-> q, summary |-> JStr(<<"text">>)]] :
        q \in SqlFieldValues}

ClientIdle ==
    /\ pc = "idle"
    /\ response = [ok |-> FALSE, toks |-> <<>>, payload |-> NoPayload]
    /\ fallbackLacksSql = FALSE
    /\ genCalls = [primary |-> 0, fallback |-> 0]
    /\ generated = <<>>
    /\ verdicts = {}
    /\ execResult = <<>>
    /\ outcome = "none"

Init == ClientInit /\ AppInit /\ BackendIdle /\ VoiceInit /\ TableIdle /\ ChatIdle

Next == ClientNext

Spec == Init /\ [][Next]_vars

InitApp == ClientIdle /\ AppInit /\ BackendIdle /\ VoiceInit /\ TableIdle /\ ChatIdle

SpecApp == InitApp /\ [][AppNext]_vars

\* both sources of a QueryResult: a session of the App, which builds it from
\* the backend response, or a request to the client-side services, where the
\* mock executor returns it
InitDisplay ==
    \/ ClientIdle /\ AppInit /\ BackendIdle /\ VoiceInit /\ TableIdle /\ ChatIdle
    \/ ClientInit /\ response \in StrictResponses /\ AppInit /\ BackendIdle /\ VoiceInit /\ TableIdle /\ ChatIdle

NextDisplay == ClientNext \/ (pc = "idle" /\ AppNext)

SpecDisplay == InitDisplay /\ [][NextDisplay]_vars

\* one request through the backend pipeline
InitBackend == ClientIdle /\ AppInit /\ BackendInit /\ VoiceInit /\ TableIdle /\ ChatIdle

SpecBackend == InitBackend /\ [][BackendNext]_vars

\* the safety validator on every candidate text
InitValidator == ClientIdle /\ AppInit /\ ValidatorInit /\ VoiceInit /\ TableIdle /\ ChatIdle

NextValidator == Validate

SpecValidator == InitValidator /\ [][NextValidator]_vars

\* the voice input of the App
InitVoice == ClientIdle /\ AppInit /\ BackendIdle /\ VoiceInit /\ TableIdle /\ ChatIdle

SpecVoice == InitVoice /\ [][VoiceNext]_vars

\* DataTable mounted with one result
InitTable == ClientIdle /\ AppInit /\ BackendIdle /\ VoiceInit /\ TableInit /\ ChatIdle

SpecTable == InitTable /\ [][TableNext]_vars

\* the generation chat
InitChatSpec == ClientIdle /\ AppInit /\ BackendIdle /\ VoiceInit /\ TableIdle /\ ChatInit

SpecChat == InitChatSpec /\ [][ChatNext]_vars

\* the App against a backend that may never answer: a response that arrives is
\* handled (the continuation of the await runs), nothing else is promised
Settles == \E req \in inflight, resp \in BackendResponses : BackendSettles(req, resp)

NextAppLive == AppNext \/ \E req \in inflight : BackendNeverResponds(req)

SpecAppLive == InitApp /\ [][NextAppLive]_vars /\ WF_vars(Settles)

\* both places that see an input: a session of the App, whose handleQuerySubmit
\* decides whether a request is sent, or one request at the backend intake
InitInput ==
    \/ ClientIdle /\ AppInit /\ BackendIdle /\ VoiceInit /\ TableIdle /\ ChatIdle
    \/ ClientIdle /\ AppInit /\ BackendInit /\ VoiceInit /\ TableIdle /\ ChatIdle

NextInput == (bpc = "idle" /\ AppNext) \/ BackendNext

SpecInput == InitInput /\ [][NextInput]_vars

----------------------------------------------------------------------------
(* Properties of the client pipeline and of the results handed to display *)

Repeat(tok, k) == [i \in 1..k |-> tok]

\* the text is one payload, bare or inside one code fence (with an optional
\* language word), up to surrounding whitespace
OnePayloadText(toks) ==
    \/ Trim(toks) = <<"json">>
    \/ \E l \in {<<>>, <<"lang">>}, a \in 0..Len(toks), b \in 0..Len(toks) :
          Trim(toks) = <<"fence">> \o l \o Repeat("nl", a) \o <<"json">>
                         \o Repeat("nl", b) \o <<"fence">>

NonEmptyString(j) == j.t = "string" /\ j.v # <<>>

\* the output carries no usable sql field: the call failed, the text is not
\* one payload, the payload is no object, or its sql is missing
OutputLacksSql(r) ==
    \/ ~r.ok
    \/ ~OnePayloadText(r.toks)
    \/ r.payload.kind # "object"
    \/ r.payload.sql.t = "absent"

\* C1: SQL has been executed (an ExecutionResult exists) only if the safety
\* validator returned allowed=true for that SQL text earlier in the request.
C1_ExecutedOnlyIfAccepted ==
    execResult # <<>> => execResult[1].query \in verdicts

\* C3: when the generation output lacks the sql field (or does not parse) on
\* the primary and on the fallback model, the request ends with
\* GenerationError, no safety verdict is computed and nothing is executed.
C3_NoSqlEndsInGenerationError ==
    (pc # "start" /\ OutputLacksSql(response) /\ fallbackLacksSql)
        => /\ pc = "failed"
           /\ outcome = "GenerationError"
           /\ generated = <<>>
           /\ verdicts = {}
           /\ execResult = <<>>

C3_Witness ==
    /\ pc = "failed"
    /\ response.ok
    /\ OnePayloadText(response.toks)
    /\ response.payload.kind = "object"
    /\ response.payload.sql.t = "absent"
    /\ NonEmptyString(response.payload.summary)
    /\ fallbackLacksSql
    /\ genCalls.primary = 1

\* C4: when the primary output fails to parse or lacks a required field the
\* fallback model is invoked exactly once; it is never invoked when the
\* primary output parses; a request makes at most two generation calls.
C4_FallbackExactlyOnceOnFailure ==
    /\ (pc = "failed" /\ response.ok) => genCalls.fallback = 1
    /\ pc \in {"generated", "executed"} => genCalls.fallback = 0
    /\ genCalls.primary + genCalls.fallback <= 2

\* C5: a GeneratedSql is returned only when the text, after removing one
\* optional surrounding code fence, is a parseable payload with a non-empty
\* sql and a non-empty summary; every other text yields a failure.
C5_GeneratedOnlyFromStrictPayload ==
    pc # "start" =>
        (generated # <<>> <=>
            /\ response.ok
            /\ OnePayloadText(response.toks)
            /\ response.payload.kind = "object"
            /\ NonEmptyString(response.payload.sql)
            /\ NonEmptyString(response.payload.summary))

RowsMatchColumns(r) == \A i \in 1..Len(r.rows) : Len(r.rows[i]) = Len(r.columns)

----------------------------------------------------------------------------
(* Claims about the backend pipeline *)

\* the claim's description of an acceptable text, position by position
IsOneSelect(S) == Len(S) >= 2 /\ UpperToken(S[1]) = "SELECT" /\ S[2] # ";"
NoMutatingWord(S) == \A i \in 1..Len(S) : UpperToken(S[i]) \notin MutatingKeywords
OnlyTrailingTerminator(S) == \A i \in 1..Len(S) : S[i] = ";" => i = Len(S)
NoCommentMarker(S) == \A i \in 1..Len(S) : S[i] \notin {"--", "/*", "*/"}

\* C2: the validator's single transition ends in ACCEPTED iff the candidate is
\* exactly one SELECT statement with no mutating or DDL keyword in any letter
\* case, no ';' other than one trailing terminator and no comment marker;
\* every other candidate ends in REJECTED.
C2_AcceptedIffOneCleanSelect ==
    verdict # <<>> =>
        /\ verdict[1].state \in {"ACCEPTED", "REJECTED"}
        /\ verdict[1].allowed <=> verdict[1].state = "ACCEPTED"
        /\ verdict[1].state = "ACCEPTED" <=>
              /\ IsOneSelect(candidate[1])
              /\ NoMutatingWord(candidate[1])
              /\ OnlyTrailingTerminator(candidate[1])
              /\ NoCommentMarker(candidate[1])

\* a lower-case select with a trailing terminator has been accepted
C2_Witness ==
    /\ verdict # <<>>
    /\ verdict[1].state = "ACCEPTED"
    /\ candidate[1] = <<"select", "FIR", ";">>

CallsTo(provider) == {i \in 1..Len(calls) : calls[i].provider = provider}
OutcomesOf(provider) == {calls[i].outcome : i \in CallsTo(provider)}
SttStageOver == bpc \notin {"received", "stt_primary", "stt_fallback"}

\* C6: the fallback speech-to-text provider is invoked iff the primary failed
\* with a model error (never for low confidence), at most once per request;
\* TranscriptionError is surfaced iff both providers failed.
C6_SttFallbackIffModelError ==
    /\ Cardinality(CallsTo("stt.primary")) <= 1
    /\ Cardinality(CallsTo("stt.fallback")) <= 1
    /\ CallsTo("stt.fallback") # {} => OutcomesOf("stt.primary") = {"model_error"}
    /\ SttStageOver =>
          /\ "model_error" \in OutcomesOf("stt.primary") => CallsTo("stt.fallback") # {}
          /\ (failure # <<>> /\ failure[1].kind = "TranscriptionError") <=>
                /\ "model_error" \in OutcomesOf("stt.primary")
                /\ "model_error" \in OutcomesOf("stt.fallback")

\* the primary failed, the fallback transcribed with low confidence, and the
\* request went on to its end
C6_Witness ==
    /\ bpc = "done"
    /\ OutcomesOf("stt.primary") = {"model_error"}
    /\ OutcomesOf("stt.fallback") = {"low_confidence"}

ExecCalls == SelectSeq(calls, LAMBDA c : c.provider \in {"execute.primary", "execute.secondary"})

\* C8: an accepted statement is run at most twice; a second attempt only after
\* a first that failed with ConnectionError and with a secondary connection
\* configured, and against that connection; no other failure is retried.
C8_RetryOnlyOnConnectionError ==
    /\ Len(ExecCalls) <= 2
    /\ Len(ExecCalls) >= 1 =>
          /\ ExecCalls[1].provider = "execute.primary"
          /\ verdict # <<>> /\ verdict[1].allowed
    /\ Len(ExecCalls) = 2 =>
          /\ ExecCalls[1].outcome = "ConnectionError"
          /\ input.secondary
          /\ ExecCalls[2].provider = "execute.secondary"
    /\ (Len(ExecCalls) = 1 /\ bpc = "failed") =>
          (ExecCalls[1].outcome = "ConnectionError" => ~input.secondary)

\* the statement ran a second time, against the secondary connection
C8_Witness ==
    /\ Len(ExecCalls) = 2
    /\ ExecCalls[2].outcome = "ok"
    /\ bpc = "done"

\* C9: the stages of a request are entered in the fixed order, each only after
\* the one before it produced its output, and none is entered a second time.
C9_StagesInFixedOrder ==
    /\ Len(entered) <= Len(StageOrder)
    /\ \A i \in 1..Len(entered) : entered[i] = StageOrder[i]
    /\ \A i \in 2..Len(entered) : StageOrder[i - 1] \in produced
    /\ StageOf(bpc) # "none" =>
          entered # <<>> /\ entered[Len(entered)] = StageOf(bpc)

\* a request that went through all six stages
C9_Witness == bpc = "done" /\ entered = StageOrder /\ Cardinality(produced) = 6

----------------------------------------------------------------------------
(* Claims about the voice input *)

VoiceQuiet ==
    /\ gumPending = 0
    /\ transcribing = {}
    /\ \A i \in 1..Len(recorders) : ~recorders[i].stopQueued
    /\ ~voice.isRecording
    /\ ~voice.isProcessing

\* C7: a voice request on empty or unintelligible audio ends with the
\* transcription error surfaced (the stopRecording promise rejected or the
\* error shown), and its text is never submitted as a query.
C7_UnusableAudioSurfacesError ==
    /\ \A i \in 1..Len(submitted) : submitted[i] \notin Unusable
    /\ (promises # <<>> /\ VoiceQuiet /\ promises[Len(promises)].audio \in Unusable
          /\ promises[Len(promises)].state # "pending")
        => (promises[Len(promises)].state = "rejected" \/ voice.error # NoError)

----------------------------------------------------------------------------
(* Claims about the chart derivation *)

Charted == chartMemo # <<>>

\* column c of the rows
Column(rows, c) == [i \in 1..Len(rows) |-> rows[i][c]]

Columns(rows) == IF rows = <<>> THEN {} ELSE 1..Len(rows[1])

FirstRowHasNumber(rows) == rows # <<>> /\ \E c \in Columns(rows) : rows[1][c].isNum

FirstRowHasDate(rows) ==
    rows # <<>> /\ \E c \in Columns(rows) : ~rows[1][c].isNum /\ DateRegexTest(rows[1][c].s)

IsDateCell(cell) == ~cell.isNum /\ DateRegexTest(cell.s)

HoldsDates(rows, c) == \A i \in 1..Len(rows) : IsDateCell(rows[i][c])

\* the series has one point per key, each key once, its value the number of
\* rows carrying the key
CountsRows(series, keys) ==
    /\ {series[i].name : i \in 1..Len(series)} = {keys[i] : i \in 1..Len(keys)}
    /\ \A i, j \in 1..Len(series) : series[i].name = series[j].name => i = j
    /\ \A i \in 1..Len(series) :
          series[i].value = Count(Cardinality({r \in 1..Len(keys) : keys[r] = series[i].name}))

Months(rows, c) == [i \in 1..Len(rows) |-> Substring07(rows[i][c].s)]

Texts(rows, c) == [i \in 1..Len(rows) |-> CellText(rows[i][c])]

\* the year-months in ascending order
MonthRank(month) == IF month = "2023-01" THEN 1 ELSE 2

AscendingMonths(series) ==
    \A i, j \in 1..Len(series) : i < j => MonthRank(series[i].name) < MonthRank(series[j].name)

RECURSIVE SumValues(_)
SumValues(series) ==
    IF series = <<>> THEN 0 ELSE Head(series).value.n + SumValues(Tail(series))

IsDateCount(chart, rows, c) ==
    /\ ~chart.raised
    /\ chart.strategy = "date-count"
    /\ CountsRows(chart.series, Months(rows, c))
    /\ AscendingMonths(chart.series)
    /\ SumValues(chart.series) = Len(rows)

IsCategoryCount(chart, rows, c) ==
    /\ ~chart.raised
    /\ chart.strategy = "category-count"
    /\ CountsRows(chart.series, Texts(rows, c))

DistinctTexts(rows, c) == Cardinality({CellText(rows[i][c]) : i \in 1..Len(rows)})

C13_DateCountOverAColumnOfDates ==
    LET rows == tableData.rows
    IN  (/\ Charted
         /\ rows # <<>>
         /\ \A c \in Columns(rows), i \in 1..Len(rows) : ~rows[i][c].isNum
         /\ \E c \in Columns(rows) : HoldsDates(rows, c))
        => \E c \in Columns(rows) : HoldsDates(rows, c) /\ IsDateCount(chartMemo[1], rows, c)

\* C13, amended: when no cell of the first row is numeric and the first column
\* whose first-row cell is an ISO date holds an ISO date in every row, the
\* chart is date-count over that column: one point per distinct year-month,
\* its value the rows of that month, ascending, summing to the row count.
C13_DateCountOverFirstDateColumn ==
    LET rows == tableData.rows
    IN  (/\ Charted
         /\ ~FirstRowHasNumber(rows)
         /\ FirstRowHasDate(rows)
         /\ HoldsDates(rows, DateColumnIndex(rows[1])))
        => IsDateCount(chartMemo[1], rows, DateColumnIndex(rows[1]))

\* a February row ahead of a January row: the months come out in ascending
\* order, one row each
C13_Witness ==
    /\ Charted
    /\ tableData.rows = <<<<Str("2023-02-03")>>, <<Str("2023-01-15")>>, <<Str("2023-01-20")>>>>
    /\ chartMemo[1].series = <<[name |-> "2023-01", value |-> Count(2)],
                               [name |-> "2023-02", value |-> Count(1)]>>

NeitherRuleApplies(rows) == rows # <<>> /\ ~FirstRowHasNumber(rows) /\ ~FirstRowHasDate(rows)

\* C14, as claimed: when neither earlier rule applies, the chart is
\* category-count iff some string column has more than one distinct value,
\* and the series then counts the rows per value of such a column.  A column
\* counts as a string column when all its cells are strings; the chart is
\* held to its side of the equivalence for any column that varies.
C14_CategoryCountIffSomeStringColumnVaries ==
    LET rows == tableData.rows
        varying == {c \in Columns(rows) : DistinctTexts(rows, c) > 1}
        strings == {c \in varying : \A i \in 1..Len(rows) : ~rows[i][c].isNum}
    IN  Charted /\ NeitherRuleApplies(rows) =>
            /\ chartMemo[1].strategy = "category-count" => varying # {}
            /\ strings # {} => \E c \in varying : IsCategoryCount(chartMemo[1], rows, c)

\* C14, amended: when neither earlier rule applies, the chart is category-count
\* iff the first column whose first-row cell is a string has more than one
\* distinct value across the rows, a number counting by its decimal text; the
\* series then has one point per distinct value of that column, whose value is
\* the number of rows carrying it.
C14_CategoryCountIffFirstStringColumnVaries ==
    LET rows == tableData.rows
    IN  Charted /\ NeitherRuleApplies(rows) /\ LabelColumnIndex(rows[1]) # 0 =>
            LET c == LabelColumnIndex(rows[1])
            IN  /\ ~chartMemo[1].raised
                /\ chartMemo[1].strategy = "category-count" <=> DistinctTexts(rows, c) > 1
                /\ DistinctTexts(rows, c) > 1 => IsCategoryCount(chartMemo[1], rows, c)
                /\ DistinctTexts(rows, c) <= 1 => chartMemo[1] = NoChart

\* three rows of one string column, two of them Theft
C14_Witness ==
    /\ Charted
    /\ tableData.rows = <<<<Str("Theft")>>, <<Str("Assault")>>, <<Str("Theft")>>>>
    /\ chartMemo[1].strategy = "category-count"
    /\ chartMemo[1].series = <<[name |-> "Theft", value |-> Count(2)],
                               [name |-> "Assault", value |-> Count(1)]>>

\* C15: the rules are tried in the order categorical-value, date-count,
\* category-count, a later one only when no earlier one applies; the strategy
\* is none, with an empty series, exactly when no rule applies, as for a
\* result without rows; and the derivation returns for every result.
C15_RulesInOrderAndNeverRaises ==
    Charted =>
        LET chart == chartMemo[1]
            rows == tableData.rows
            rule1 == FirstRowHasNumber(rows)
            rule2 == FirstRowHasDate(rows)
            rule3 == /\ rows # <<>>
                     /\ LabelColumnIndex(rows[1]) # 0
                     /\ DistinctTexts(rows, LabelColumnIndex(rows[1])) > 1
        IN  /\ ~chart.raised
            /\ chart.strategy = "categorical-value" <=> rule1
            /\ chart.strategy = "date-count" <=> ~rule1 /\ rule2
            /\ chart.strategy = "category-count" <=> ~rule1 /\ ~rule2 /\ rule3
            /\ chart.strategy = "none" <=> ~rule1 /\ ~rule2 /\ ~rule3
            /\ chart.strategy = "none" <=> chart.series = <<>>
            /\ rows = <<>> => chart.strategy = "none"

----------------------------------------------------------------------------
(* Claims about the App: summaries, failures and termination *)

LastMessage(ms) == ms[Len(ms)]

\* the response takes the success branch of handleQuerySubmit
IsSuccess(resp) == ~resp.thrown /\ resp.success /\ resp.sql # <<>> /\ resp.hasResults

\* C16: every sql message, the one kind shown with a result, carries a
\* summary, the backend's or else the template built from the row count; and
\* the result shown with the latest sql message is that message's: its SQL is
\* the message's SQL and its rows are as many as the template counts.
C16_ResultAlwaysCarriesSummary ==
    /\ \A i \in 1..Len(messages) :
          messages[i].type = "sql" =>
              messages[i].summary.template \/ messages[i].summary.text # ""
    /\ LastMessage(messages).type = "sql" =>
          /\ queryResult # <<>>
          /\ queryResult[1].query = LastMessage(messages).content
          /\ LastMessage(messages).summary.template =>
                LastMessage(messages).summary.n = Len(queryResult[1].rows)

\* a result of two rows is shown under the template summary for two rows
C16_Witness ==
    /\ Len(messages) > 1
    /\ LastMessage(messages).type = "sql"
    /\ LastMessage(messages).summary.template
    /\ LastMessage(messages).summary.n = 2
    /\ queryResult # <<>>
    /\ Len(queryResult[1].rows) = 2

InFlight(id) == \E req \in inflight : req.id = id

\* C17: every request terminates: no call stays in flight for good and the
\* status does not stay 'loading' for good.
C17_EveryRequestTerminates ==
    /\ \A id \in 1..MaxSubmits : InFlight(id) ~> ~InFlight(id)
    /\ (status = "loading") ~> (status = "idle")

\* C18: a failure that comes with the generated SQL is reported with it: the
\* message shown for it, or the result kept, carries that SQL.
C18_FailureCarriesGeneratedSql ==
    [][\A req \in inflight, resp \in BackendResponses :
          BackendSettles(req, resp) /\ ~IsSuccess(resp) /\ resp.sql # <<>> =>
              \/ LastMessage(messages').content = resp.sql
              \/ queryResult' # <<>> /\ queryResult'[1].query = resp.sql]_vars

\* C19: with nothing in flight the App is idle, whatever failed before; a
\* failure just reported shows an error message and no result; a query
\* submitted afterwards sets loading and clears the error shown, and the
\* answer it gets is shown with its own result.
C19_FailureAffectsOnlyItsRequest ==
    /\ [](inflight = {} => status = "idle")
    /\ [](LastMessage(messages).type = "error" => queryResult = <<>> /\ error # <<>>)
    /\ [](LastMessage(messages).type = "sql" =>
             queryResult # <<>> /\ queryResult[1].query = LastMessage(messages).content)
    /\ [][submits' # submits => status' = "loading" /\ error' = <<>>]_vars

\* a thrown failure, then a second query answered with a result: idle, no
\* error shown, the result of the second query held
C19_Witness ==
    /\ status = "idle"
    /\ inflight = {}
    /\ error = <<>>
    /\ queryResult # <<>>
    /\ LastMessage(messages).type = "sql"
    /\ \E i \in 1..Len(messages) :
          /\ messages[i].type = "error"
          /\ messages[i].content[1] = "I'm sorry, I encountered an error:"

----------------------------------------------------------------------------
(* Claims about the generation chat *)

\* C20: the schema context is the same text in every generation request,
\* whatever the query and however many requests went before, and the chat
\* keeps the schema it was created with.
C20_SchemaContextIsConstant ==
    /\ \A i, j \in 1..Len(sent) : sent[i].systemInstruction = sent[j].systemInstruction
    /\ \A i \in 1..Len(sent) : sent[i].systemInstruction \in {CCTNS_SCHEMA, NoInstruction}
    /\ chat # <<>> => chat[1].config.systemInstruction = CCTNS_SCHEMA

\* two requests with different queries on one chat, both carrying the schema
C20_Witness ==
    /\ Len(sent) >= 2
    /\ sent[1].message # sent[2].message
    /\ sent[2].history # <<>>
    /\ sent[1].systemInstruction = CCTNS_SCHEMA
    /\ sent[2].systemInstruction = CCTNS_SCHEMA

----------------------------------------------------------------------------
(* Claims about input handling and concurrent requests *)

UserMessages == {i \in 1..Len(messages) : messages[i].sender = "user"}

ProcessingFailed(resp) ==
    \/ resp.thrown
    \/ ~resp.success
    \/ resp.hasResults /\ ~resp.results.success

TextsOf(m) == {m.content[i] : i \in 1..Len(m.content)}

\* C22: whenever processing a query fails, the message shown for it is an
\* error message, it carries the suggestion when the response provides one,
\* and no result table is displayed.
C22_FailureShowsErrorAndSuggestion ==
    [][\A req \in inflight, resp \in BackendResponses :
          BackendSettles(req, resp) /\ ProcessingFailed(resp) =>
              /\ LastMessage(messages').type = "error"
              /\ error' # <<>>
              /\ resp.suggestion # "" => resp.suggestion \in TextsOf(LastMessage(messages'))
              /\ queryResult' = <<>>]_vars

\* C23: at most one query request is in flight, and status is 'loading'
\* whenever a request is in flight.
C23_AtMostOneRequestInFlight ==
    /\ Cardinality(inflight) <= 1
    /\ inflight # {} => status = "loading"

\* what the App displays for a response that is the only thing to display
DisplaysOutcomeOf(resp, result, err) ==
    IF IsSuccess(resp)
    THEN result = <<NewQueryResult(resp)>> /\ err = <<>>
    ELSE result = <<>> /\ err # <<>>

\* C24: when the last response of several queries arrives, the result and
\* the error displayed are those of the most recently submitted query: the
\* outcome of that query if it is the one that just arrived, else what was
\* displayed before, which the late response of an older query leaves alone.
C24_DisplayIsOfMostRecentQuery ==
    [][\A req \in inflight, resp \in BackendResponses :
          BackendSettles(req, resp) /\ inflight' = {} /\ submits > 1 =>
              IF req.id = submits
              THEN DisplaysOutcomeOf(resp, queryResult', error')
              ELSE queryResult' = queryResult /\ error' = error]_vars

IsAnswer(m) == m.sender = "ai" /\ m.type \in {"sql", "error"}

\* C25: once no request is in flight the message list holds no status
\* message, one user message per submitted query, and each user message is
\* followed by exactly one answer (an AI message of type sql or error)
\* before the next user message or the end of the list.
C25_EachQueryFollowedByItsAnswer ==
    inflight = {} =>
        /\ \A i \in 1..Len(messages) : messages[i].type # "status"
        /\ Cardinality(UserMessages) = submits
        /\ \A i \in UserMessages :
              /\ i < Len(messages)
              /\ IsAnswer(messages[i + 1])
              /\ i + 2 <= Len(messages) => messages[i + 2].sender = "user"

----------------------------------------------------------------------------
(* Claims about the recording state machine *)

C27_RecordingImpliesIsRecording ==
    \A i \in 1..Len(recorders) :
        recorders[i].state = "recording" => voice.isRecording /\ recorder = i

\* the k-th promise of stopRecording can still be settled: the onstop that
\* resolves or rejects it is installed on a recorder whose stop event is to
\* come, or it is awaiting transcribeAudio
CanStillSettle(k) ==
    \/ \E i \in 1..Len(recorders) : recorders[i].onstop = k /\ recorders[i].stopQueued
    \/ \E t \in transcribing : t.promise = k

\* C28: every promise returned by stopRecording resolves or rejects: one
\* that is pending is never left without the handler that settles it.
C28_StopPromiseCanSettle ==
    \A k \in 1..Len(promises) : promises[k].state = "pending" => CanStillSettle(k)

Transcribed == {i \in 1..Len(recorders) : recorders[i].transcribed > 0}

\* C29: for one recording transcribeAudio is called at most once, whatever
\* the order of stop clicks and recorder stop events, and no more texts are
\* submitted than recordings were transcribed.
C29_TranscribedAtMostOnce ==
    /\ \A i \in 1..Len(recorders) : recorders[i].transcribed <= 1
    /\ Len(submitted) <= Cardinality(Transcribed)

\* a recording stopped by two clicks, its stop event delivered afterwards, and
\* transcribed once
C29_Witness ==
    \E i \in 1..Len(recorders) :
        /\ recorders[i].transcribed = 1
        /\ recorders[i].onstop >= 2
        /\ ~recorders[i].stopQueued

----------------------------------------------------------------------------
(* Claims about the pagination of the results table *)

\* C30: with at least one row in the table, 1 <= currentPage <= totalPages,
\* also after a new result with fewer rows arrived, so that the page slice
\* shown is never empty.
C30_CurrentPageWithinTotalPages ==
    Len(tableData.rows) > 0 =>
        /\ 1 <= currentPage
        /\ currentPage <= TotalPages(tableData)
        /\ PaginatedRows(tableData, currentPage) # <<>>

============================================================================
